---- MODULE Spec2Model ----
(***************************************************************************)
(* Model of the safe-stack dashboard: the capture/upload scheduler of the  *)
(* Home page (captureChunkCycle, enqueueJob, drainQueue, startUpload) and  *)
(* the alert merge engine (mergeAlerts, mapBackendAlertToUI).              *)
(***************************************************************************)
EXTENDS Integers, Sequences, FiniteSets, TLC

(***************************************************************************)
(* Bounds of the model.                                                    *)
(***************************************************************************)
\* alert ids are 1..MaxAlertId
MaxAlertId == 2
\* timestamps (instants, in ms since the epoch) are 1..MaxTs
MaxTs == 1
\* longest argument lists of a mergeAlerts call: Len(existing) + Len(incoming)
MaxMergeLen == 3
\* number of cameras of the dashboard
NumCams == 2
\* capture cycles that start capturing
MaxCycles == 2
\* finite values of the upload concurrency bound are 1..MaxW
MaxW == 2
\* alerts returned by one analysis response
MaxRespAlerts == 1
\* answers to fetchAlerts requests that are under way at a time
MaxPolls == 1
\* polls for amended images under way at a time
MaxDetailPolls == 2
\* an interval tick comes up to MaxLate ms late
MaxLate == 1
\* length of the classifier's output, in tokens
MaxTextLen == 4
\* frame-analysis timers LiveCamera creates
MaxTimers == 3
\* getUserMedia promises pending at a time
MaxPendingMedia == 2
\* /api/analyze-stream requests issued
MaxLiveRequests == 2
\* length of the violations list and of a batch of new violations
MaxViolations == 4
MaxBatch == 2
\* policy levels an entry of result.alerts carries
MaxLevel == 4
\* policies of the policy document
MaxPolicies == 2
\* versions of the policy document are 1..MaxVersion
MaxVersion == 3

(***************************************************************************)
(* Alerts.  An Alert carries its id, its timestamp string (modelled as an  *)
(* optional instant: <<>> is an absent/empty timestamp, <<t>> the ISO      *)
(* string of instant t) and its amended_images (<<>> or one image).        *)
(***************************************************************************)
AlertIds == 1..MaxAlertId

Timestamps == {<<>>} \cup {<<t>> : t \in 1..MaxTs}

AmendedImages == {<<>>, <<"amended">>}

Alert == [id : AlertIds, timestamp : Timestamps, amended_images : AmendedImages]

\* the ids of the alerts of a list
Ids(list) == {list[i].id : i \in 1..Len(list)}

\* new Date(a.timestamp || 0).getTime()
GetTime(a) == IF a.timestamp = <<>> THEN 0 ELSE a.timestamp[1]

\* mutant: every set adds an entry, also for a key the map holds
MapSetAppend(byId, a) == Append(byId, a)

\* Map.prototype.set on an insertion-ordered Map held as the sequence of its
\* values: an existing key keeps its position and gets the new value, a new
\* key is appended.
MapSet(byId, a) ==
  IF \E i \in 1..Len(byId) : byId[i].id = a.id
    THEN [i \in 1..Len(byId) |-> IF byId[i].id = a.id THEN a ELSE byId[i]]
    ELSE Append(byId, a)

\* list.forEach((a) => byId.set(a.id, a))
RECURSIVE SetAll(_, _)
SetAll(byId, list) ==
  IF list = <<>> THEN byId
  ELSE SetAll(MapSet(byId, Head(list)), Tail(list))

\* mutant: the comparator is ta - tb (oldest first)
CompareOldestFirst(a, b) == GetTime(a) - GetTime(b)

\* the comparator of merged.sort: tb - ta
Compare(a, b) == GetTime(b) - GetTime(a)

\* insertion of x into a sorted sequence after every element that must not
\* come after it (Array.prototype.sort is stable)
RECURSIVE InsertSorted(_, _)
InsertSorted(sorted, x) ==
  IF sorted = <<>> THEN <<x>>
  ELSE IF Compare(Head(sorted), x) <= 0
    THEN <<Head(sorted)>> \o InsertSorted(Tail(sorted), x)
    ELSE <<x>> \o sorted

RECURSIVE SortNewestFirst(_)
SortNewestFirst(list) ==
  IF list = <<>> THEN <<>>
  ELSE InsertSorted(SortNewestFirst(SubSeq(list, 1, Len(list) - 1)), list[Len(list)])

\* mutant: the map is filled from incoming first, so existing wins
MergeExistingWins(existing, incoming) ==
  SortNewestFirst(SetAll(SetAll(<<>>, incoming), existing))

\* mutant: the map's values are returned unsorted
MergeUnsorted(existing, incoming) == SetAll(SetAll(<<>>, existing), incoming)

mergeAlerts(existing, incoming) ==
  SortNewestFirst(SetAll(SetAll(<<>>, existing), incoming))

(***************************************************************************)
(* The Home page: cameras, the upload queue and the capture cycle.         *)
(***************************************************************************)
VARIABLES
  cameras,            \* camera id -> status
  alerts,             \* the in-memory alert collection (useState<Alert[]>)
  queueRef,           \* queued ChunkJobs, FIFO
  activeUploadsRef,   \* the counter of uploads in flight
  chunkCountersRef,   \* camera id -> last chunk index handed out
  captureInProgressRef,
  maxParallelUploads, \* MAX_PARALLEL_UPLOADS
  capturing,          \* cameras whose captureVideoChunk promise is pending
  inflight,           \* jobs whose upload fetch has not settled
  enqueued,           \* history: job -> times it was handed to enqueueJob
  started,            \* history: job -> times its upload was started
  captureStarts,      \* history: camera id -> captureVideoChunk calls made
  cycles,             \* history: capture cycles that started capturing
  unhandledRejection, \* an upload's promise chain ended rejected
  last,               \* history: the event handled by the latest step
  mergeCall,          \* a call of mergeAlerts: its arguments and its result
  store,              \* the backend's alert store, as GET /alerts lists it
  pollResponses,      \* answers to fetchAlerts requests, not yet delivered
  optimistic          \* history: ids the per-upload merge put in the collection

\* the server process: the policy document and its in-process cache
VARIABLES
  policyDoc,          \* the persisted policy document (policies_latest.json)
  cachedPolicies,     \* let cachedPolicies: PoliciesData | null
  found               \* the result of the latest findPolicyById call

serverVars == <<policyDoc, cachedPolicies, found>>

\* the alert detail page (AlertDetailPage)
VARIABLES
  alert,                  \* useState<Alert | null>
  error,                  \* an error state is set (error !== null)
  isPollingAmendedImages,
  intervalActive,         \* the polling effect's interval timer is set
  elapsed,                \* Date.now() - startTime of the polling effect, ms
  detailPolls,            \* polls of /api/alerts/{id} under way: how many are
                          \* sent, answered without and with amended images
  fetchPending,           \* fetchAlert's request: "none", "sent", or answered
                          \* "plain" (without) or "amended" (with the images)
  serverImages,           \* the backend holds amended images for the alert
  pollingStopped          \* history: the polling was stopped, by the budget
                          \* or by a poll that returned amended images

detailVars == <<alert, error, isPollingAmendedImages, intervalActive, elapsed,
                detailPolls, fetchPending, serverImages, pollingStopped>>

homeVars == <<cameras, alerts, queueRef, activeUploadsRef, chunkCountersRef,
              captureInProgressRef, maxParallelUploads, capturing, inflight,
              enqueued, started, captureStarts, cycles, unhandledRejection,
              mergeCall, store, pollResponses, optimistic>>

\* calls of the classifier (lib/gemini) and of the analysis proxy route
VARIABLES
  classifyCall,       \* a call of analyzeVideo or analyzeFrame and its outcome
  proxyCall           \* a POST /api/analyze-video request and its answer

callVars == <<classifyCall, proxyCall>>

\* the client's mapping and display of an alert
VARIABLES
  mapCall             \* a call of mapBackendAlertToUI and what becomes of its result

\* the LiveCamera component and the violations list of the page that holds it
VARIABLES
  isActive,           \* the isActive prop of LiveCamera
  liveIntervalRef,    \* intervalRef.current: a timer id, or 0 for null
  liveTimers,         \* the frame-analysis timers that are running
  timersCreated,      \* the number of frame-analysis timers created so far
  pendingMedia,       \* the getUserMedia promises that are pending
  liveRequests,       \* the /api/analyze-stream requests issued so far
  violations          \* the violations state of the page

liveVars == <<isActive, liveIntervalRef, liveTimers, timersCreated, pendingMedia,
              liveRequests, violations>>

clientVars == <<mapCall, liveVars>>

vars == <<cameras, alerts, queueRef, activeUploadsRef, chunkCountersRef,
          captureInProgressRef, maxParallelUploads, capturing, inflight,
          enqueued, started, captureStarts, cycles, unhandledRejection,
          last, mergeCall, store, pollResponses, optimistic, serverVars,
          detailVars, callVars, clientVars>>

Cameras == 1..NumCams

Status == {"idle", "analyzing", "alert"}

\* Number.POSITIVE_INFINITY as a concurrency bound
POSITIVE_INFINITY == [finite |-> FALSE, n |-> 0]

ParallelLimits == {[finite |-> TRUE, n |-> k] : k \in 1..MaxW} \cup {POSITIVE_INFINITY}

\* mutant: the loop condition reads <= instead of <
BelowOrAt(x, limit) == IF limit.finite THEN x <= limit.n ELSE TRUE

\* x < limit
Below(x, limit) == IF limit.finite THEN x < limit.n ELSE TRUE

\* a ChunkJob: the camera and the chunk index identify it (its payload, mime
\* type, start time and duration are carried along unchanged)
ChunkJob(c, i) == [cameraId |-> c, chunkIndex |-> i]

Jobs == [cameraId : Cameras, chunkIndex : 0..MaxCycles]

\* mutant: the status is given to every camera
SetStatusOfAll(cams, cameraId, status) == [c \in DOMAIN cams |-> status]

\* prev.map((c) => (c.id === cameraId ? { ...c, status } : c))
SetStatus(cams, cameraId, status) == [cams EXCEPT ![cameraId] = status]

(***************************************************************************)
(* The upload scheduler.  Its state is the record                          *)
(*   [queue, active, inflight, enqueued, started]                          *)
(* of queueRef, activeUploadsRef, the fetches started by startUpload and   *)
(* the two histories.                                                      *)
(***************************************************************************)
Sched == [queue |-> queueRef, active |-> activeUploadsRef, inflight |-> inflight,
          enqueued |-> enqueued, started |-> started]

\* mutant: the request is sent but the counter is not incremented
startUploadUncounted(s, job) ==
  [s EXCEPT !.inflight = @ \cup {job},
            !.started[job] = @ + 1]

\* startUpload(job) up to the fetch call: the counter is incremented and the
\* request is sent
startUpload(s, job) ==
  [s EXCEPT !.active = @ + 1,
            !.inflight = @ \cup {job},
            !.started[job] = @ + 1]

\* mutant: the loop takes the job at the end of the queue
RECURSIVE drainQueueLifo(_, _)
drainQueueLifo(s, limit) ==
  IF Below(s.active, limit) /\ Len(s.queue) > 0
    THEN drainQueueLifo(startUpload([s EXCEPT !.queue = SubSeq(@, 1, Len(@) - 1)],
                                    s.queue[Len(s.queue)]), limit)
    ELSE s

\* the while loop of drainQueue
RECURSIVE drainQueue(_, _)
drainQueue(s, limit) ==
  IF Below(s.active, limit) /\ Len(s.queue) > 0
    THEN drainQueue(startUpload([s EXCEPT !.queue = Tail(@)], Head(s.queue)), limit)
    ELSE s

\* the jobs the while loop of drainQueue hands to startUpload, in the order
\* of the calls
RECURSIVE drainStarts(_, _)
drainStarts(s, limit) ==
  IF Below(s.active, limit) /\ Len(s.queue) > 0
    THEN <<Head(s.queue)>>
           \o drainStarts(startUpload([s EXCEPT !.queue = Tail(@)], Head(s.queue)), limit)
    ELSE <<>>

\* mutant: the job is pushed but the queue is not drained
enqueueJobNoDrain(s, job, limit) ==
  [s EXCEPT !.queue = Append(@, job), !.enqueued[job] = @ + 1]

\* queueRef.current.push(job); drainQueue()
enqueueJob(s, job, limit) ==
  drainQueue([s EXCEPT !.queue = Append(@, job), !.enqueued[job] = @ + 1], limit)

\* mutant: the counter is read but the index is not advanced
SameChunkIndex(counters, cameraId) == counters[cameraId]

\* (chunkCountersRef.current[cameraId] || 0) + 1
NextChunkIndex(counters, cameraId) == counters[cameraId] + 1

(***************************************************************************)
(* The analysis response and the promise chain of startUpload.             *)
(***************************************************************************)
\* an entry of result.alerts: alert_id (0: none), timestamp and
\* amended_image_url (<<>>: undefined)
Null == [id |-> 0]

BackendAlert == [alert_id : AlertIds, timestamp : {<<>>}, amended_image_url : {<<>>}]

mapBackendAlertToUI(incoming, now) ==
  IF incoming.alert_id = 0 THEN Null
  ELSE [id |-> incoming.alert_id,
        timestamp |-> IF incoming.timestamp = <<>> THEN <<now>> ELSE incoming.timestamp,
        amended_images |-> IF incoming.amended_image_url # <<>>
                             THEN incoming.amended_image_url ELSE <<>>]

\* result.alerts.map(mapBackendAlertToUI).filter((a) => Boolean(a))
RECURSIVE MapAlerts(_, _)
MapAlerts(list, now) ==
  IF list = <<>> THEN <<>>
  ELSE LET a == mapBackendAlertToUI(Head(list), now)
       IN  (IF a = Null THEN <<>> ELSE <<a>>) \o MapAlerts(Tail(list), now)

SeqUpTo(S, n) == UNION {[1..k -> S] : k \in 0..n}

NoResult == [ok |-> FALSE, alerts_created |-> 0, alerts |-> <<>>]

\* what /api/analyze-video answers: a non-OK status, or an AnalysisResult
\* whose alerts are among the alerts_created alerts it created
AnalysisResponses ==
  {NoResult} \cup
  {r \in [ok : {TRUE}, alerts_created : 0..MaxRespAlerts,
          alerts : SeqUpTo(BackendAlert, MaxRespAlerts)] :
     Len(r.alerts) <= r.alerts_created}

\* mutant: the returned alerts replace the collection
ThenHandlerReplaces(ui, job, response, now) ==
  IF ~response.ok
    THEN [cameras |-> ui.cameras, alerts |-> ui.alerts, rejected |-> TRUE]
  ELSE IF response.alerts_created > 0
    THEN LET mapped == MapAlerts(response.alerts, now)
         IN  [cameras |-> SetStatus(ui.cameras, job.cameraId, "alert"),
              alerts |-> IF Len(mapped) > 0 THEN mapped ELSE ui.alerts,
              rejected |-> FALSE]
  ELSE [cameras |-> SetStatus(ui.cameras, job.cameraId, "idle"),
        alerts |-> ui.alerts, rejected |-> FALSE]

\* mutant: the returned alerts are dropped (only the status is set)
ThenHandlerNoMerge(ui, job, response, now) ==
  IF ~response.ok
    THEN [cameras |-> ui.cameras, alerts |-> ui.alerts, rejected |-> TRUE]
  ELSE [cameras |-> SetStatus(ui.cameras, job.cameraId,
                              IF response.alerts_created > 0 THEN "alert" ELSE "idle"),
        alerts |-> ui.alerts, rejected |-> FALSE]

\* the .then callback: ui is [cameras, alerts]; the outcome adds whether the
\* callback threw.  (With alerts created it also sends a fetchAlerts()
\* request, whose response a later task handles.)
ThenHandler(ui, job, response, now) ==
  IF ~response.ok
    THEN [cameras |-> ui.cameras, alerts |-> ui.alerts, rejected |-> TRUE]
  ELSE IF response.alerts_created > 0
    THEN LET mapped == MapAlerts(response.alerts, now)
         IN  [cameras |-> SetStatus(ui.cameras, job.cameraId, "alert"),
              alerts |-> IF Len(mapped) > 0 THEN mergeAlerts(ui.alerts, mapped)
                         ELSE ui.alerts,
              rejected |-> FALSE]
  ELSE [cameras |-> SetStatus(ui.cameras, job.cameraId, "idle"),
        alerts |-> ui.alerts, rejected |-> FALSE]

\* mutant: the rejection is logged and passed on, the status is left alone
CatchRethrows(r, job) == r

\* the .catch callback, run when the fetch or the .then callback rejected
CatchHandler(r, job) ==
  IF r.rejected
    THEN [cameras |-> SetStatus(r.cameras, job.cameraId, "idle"),
          alerts |-> r.alerts, rejected |-> FALSE]
    ELSE r

\* mutant: a settled upload's job is put back on the queue
FinallyRequeues(s, job, limit) ==
  LET dec == s.active - 1
      t == [s EXCEPT !.active = IF dec < 0 THEN 0 ELSE dec,
                     !.queue = Append(@, job)]
  IN  drainQueue(t, limit)

\* mutant: the counter is decremented but the queue is not drained
FinallyNoDrain(s, job, limit) ==
  LET dec == s.active - 1
  IN  [s EXCEPT !.active = IF dec < 0 THEN 0 ELSE dec]

\* the .finally callback of the upload of job
FinallyHandler(s, job, limit) ==
  LET dec == s.active - 1
      t == [s EXCEPT !.active = IF dec < 0 THEN 0 ELSE dec]
  IN  IF Len(t.queue) > 0 THEN drainQueue(t, limit) ELSE t

(***************************************************************************)
(* Actions of the Home page.                                               *)
(***************************************************************************)
Event(op, cameraId) == [op |-> op, cameraId |-> cameraId]

NoMerge == [existing |-> <<>>, incoming |-> <<>>, done |-> FALSE, result |-> <<>>]

(***************************************************************************)
(* The policy document and its cache (lib/policies).  A description is     *)
(* held as the number of the document version that wrote its text, 0 for   *)
(* the original text; title and level never change.                        *)
(***************************************************************************)
PolicyIds == 1..MaxPolicies

\* undefined, the result of Array.prototype.find without a match
Undefined == [id |-> 0, description |-> 0]

\* null, the cache before the first read
NullPolicies == [version |-> 0, policies |-> <<>>]

\* policies_latest.json as shipped
InitialPolicies ==
  [version |-> 1, policies |-> [p \in PolicyIds |-> [id |-> p, description |-> 0]]]

\* getPolicies(): the cached document if there is one, else the file's, which
\* is then cached
getPolicies(cache, doc) == IF cache # NullPolicies THEN cache ELSE doc

\* data.policies.find(p => p.id === id)
FindPolicy(data, id) ==
  IF \E i \in 1..Len(data.policies) : data.policies[i].id = id
    THEN data.policies[CHOOSE i \in 1..Len(data.policies) :
                         /\ data.policies[i].id = id
                         /\ \A j \in 1..(i - 1) : data.policies[j].id # id]
    ELSE Undefined

InitServer ==
  /\ policyDoc = InitialPolicies
  /\ cachedPolicies = NullPolicies
  /\ found = Undefined

\* no call of the classifier or of the proxy route has been made
NoClassify ==
  [fn |-> "none", fails |-> FALSE, text |-> <<>>, done |-> FALSE,
   result |-> <<>>, threw |-> FALSE]

NoProxy ==
  [multipart |-> FALSE, readable |-> TRUE, video_url |-> FALSE,
   video_base64 |-> FALSE,
   backend |-> [kind |-> "none", status |-> 0, json |-> FALSE],
   done |-> FALSE, status |-> 0, contacted |-> FALSE]

\* no entry of result.alerts is being mapped
NoIncoming == [alert_id |-> 0, policy_id |-> <<>>, policy_level |-> <<>>]

\* null, the result of mapBackendAlertToUI for an entry without an id
NoAlert == [id |-> 0, policy_id |-> 0, policy_level |-> 0]

NoShow == [card |-> "", detail |-> "", dashboard |-> ""]

NoMap ==
  [incoming |-> NoIncoming, done |-> FALSE, result |-> NoAlert,
   placed |-> FALSE, shown |-> NoShow]

\* LiveCamera as mounted: not active, no timer, no stream requested
InitLiveCamera ==
  /\ isActive = FALSE
  /\ liveIntervalRef = 0
  /\ liveTimers = {}
  /\ timersCreated = 0
  /\ pendingMedia = 0
  /\ liveRequests = 0

\* useState<Violation[]>([])
InitViolations == violations = <<>>

InitClient ==
  /\ mapCall = NoMap
  /\ InitLiveCamera
  /\ InitViolations

InitCalls ==
  /\ classifyCall = NoClassify
  /\ proxyCall = NoProxy
  /\ InitClient

\* the alert detail page is not open
InitDetailClosed ==
  /\ alert = Null
  /\ error = FALSE
  /\ isPollingAmendedImages = FALSE
  /\ intervalActive = FALSE
  /\ elapsed = 0
  /\ detailPolls = [sent |-> 0, plain |-> 0, amended |-> 0]
  /\ fetchPending = "none"
  /\ serverImages = FALSE
  /\ pollingStopped = FALSE

InitHomePage ==
  /\ cameras = [c \in Cameras |-> "idle"]
  /\ alerts = <<>>
  /\ queueRef = <<>>
  /\ activeUploadsRef = 0
  /\ chunkCountersRef = [c \in Cameras |-> 0]
  /\ captureInProgressRef = FALSE
  /\ capturing = {}
  /\ inflight = {}
  /\ enqueued = [j \in Jobs |-> 0]
  /\ started = [j \in Jobs |-> 0]
  /\ captureStarts = [c \in Cameras |-> 0]
  /\ cycles = 0
  /\ unhandledRejection = FALSE
  /\ last = Event("mount", 0)
  /\ store = <<>>
  /\ pollResponses = <<>>
  /\ optimistic = {}

InitHome ==
  /\ InitHomePage
  /\ InitServer
  /\ InitDetailClosed
  /\ InitCalls

Init ==
  /\ InitHome
  /\ maxParallelUploads \in ParallelLimits
  /\ mergeCall = NoMerge

SetSched(s) ==
  /\ queueRef' = s.queue
  /\ activeUploadsRef' = s.active
  /\ inflight' = s.inflight
  /\ enqueued' = s.enqueued
  /\ started' = s.started

\* mutant: the single-flight guard is not consulted
NeverBusy(inProgress) == FALSE

\* if (captureInProgressRef.current || !cameraGridRef.current) return
\* (the camera grid is mounted when the timer first fires)
CycleBusy(inProgress) == inProgress

\* captureChunkCycle, called by the interval timer or by handleQuickAnalysis,
\* up to its first await: it returns at once while a cycle is capturing, and
\* otherwise marks every camera analyzing and starts every camera's capture
CaptureChunkCycle ==
  /\ captureInProgressRef \/ cycles < MaxCycles
  /\ IF CycleBusy(captureInProgressRef)
       THEN /\ last' = Event("skip", 0)
            /\ UNCHANGED <<cameras, captureInProgressRef, capturing, captureStarts, cycles>>
       ELSE /\ captureInProgressRef' = TRUE
            /\ cameras' = [c \in Cameras |-> "analyzing"]
            /\ capturing' = Cameras
            /\ captureStarts' = [c \in Cameras |-> captureStarts[c] + 1]
            /\ cycles' = cycles + 1
            /\ last' = Event("cycle", 0)
  /\ UNCHANGED <<alerts, queueRef, activeUploadsRef, chunkCountersRef,
                 maxParallelUploads, inflight, enqueued, started,
                 unhandledRejection, mergeCall, store, pollResponses, optimistic,
                 serverVars, detailVars, callVars, clientVars>>

\* mutant: the flag is left as it is
CycleStaysBusy(left) == captureInProgressRef

\* the finally block of captureChunkCycle runs once Promise.all has settled,
\* that is with the continuation of the last pending capture
CycleEnds(left) == IF left = {} THEN FALSE ELSE captureInProgressRef

\* captureVideoChunk(cameraId) settles with a chunk: the job is numbered and
\* enqueued, and the queue is drained
CaptureReturnsChunk(c) ==
  /\ c \in capturing
  /\ LET chunkIndex == NextChunkIndex(chunkCountersRef, c)
         job == ChunkJob(c, chunkIndex)
     IN  /\ chunkCountersRef' = [chunkCountersRef EXCEPT ![c] = chunkIndex]
         /\ SetSched(enqueueJob(Sched, job, maxParallelUploads))
         /\ last' = Event("chunk", c)
  /\ capturing' = capturing \ {c}
  /\ captureInProgressRef' = CycleEnds(capturing')
  /\ UNCHANGED <<cameras, alerts, maxParallelUploads, captureStarts, cycles,
                 unhandledRejection, mergeCall, store, pollResponses, optimistic,
                 serverVars, detailVars, callVars, clientVars>>

\* captureVideoChunk(cameraId) settles with null, or throws: the camera goes
\* back to idle and nothing is enqueued
CaptureFails(c) ==
  /\ c \in capturing
  /\ cameras' = SetStatus(cameras, c, "idle")
  /\ capturing' = capturing \ {c}
  /\ captureInProgressRef' = CycleEnds(capturing')
  /\ last' = Event("nochunk", c)
  /\ UNCHANGED <<alerts, queueRef, activeUploadsRef, chunkCountersRef,
                 maxParallelUploads, inflight, enqueued, started,
                 captureStarts, cycles, unhandledRejection, mergeCall,
                 store, pollResponses, optimistic, serverVars, detailVars, callVars, clientVars>>

\* the promise chain of the upload of job after its fetch settled: afterThen
\* is the outcome of the fetch and of the .then callback, merged the ids of
\* the alerts the .then callback merged into the collection
Settle(job, afterThen, op, merged) ==
  LET r == CatchHandler(afterThen, job)
      s == FinallyHandler([Sched EXCEPT !.inflight = @ \ {job}], job, maxParallelUploads)
  IN  /\ cameras' = r.cameras
      /\ alerts' = r.alerts
      /\ unhandledRejection' = (unhandledRejection \/ r.rejected)
      /\ SetSched(s)
      /\ last' = Event(op, job.cameraId)
      /\ optimistic' = optimistic \cup merged
      /\ UNCHANGED <<chunkCountersRef, captureInProgressRef, maxParallelUploads,
                     capturing, captureStarts, cycles, mergeCall, store,
                     pollResponses, serverVars, detailVars, callVars, clientVars>>

FetchRejected == [cameras |-> cameras, alerts |-> alerts, rejected |-> TRUE]

\* the server answers the upload of job before the deadline
UploadResponse(job, response, now) ==
  /\ job \in inflight
  /\ Settle(job, ThenHandler([cameras |-> cameras, alerts |-> alerts],
                             job, response, now),
            IF ~response.ok THEN "notok"
            ELSE IF response.alerts_created > 0 THEN "alert" ELSE "clear",
            IF response.ok /\ response.alerts_created > 0
              THEN {response.alerts[i].alert_id : i \in 1..Len(response.alerts)}
              ELSE {})

\* the fetch of the upload of job fails (network error)
UploadNetworkError(job) ==
  /\ job \in inflight
  /\ Settle(job, FetchRejected, "error", {})

\* UPLOAD_TIMEOUT_MS pass before the upload of job completes:
\* controller.abort() rejects the fetch
UploadTimeout(job) ==
  /\ job \in inflight
  /\ Settle(job, FetchRejected, "timeout", {})

Next ==
  \/ CaptureChunkCycle
  \/ \E c \in Cameras : CaptureReturnsChunk(c)
  \/ \E c \in Cameras : CaptureFails(c)
  \/ \E job \in inflight, response \in AnalysisResponses, now \in 1..MaxTs :
       UploadResponse(job, response, now)
  \/ \E job \in inflight : UploadNetworkError(job)
  \/ \E job \in inflight : UploadTimeout(job)

Spec == Init /\ [][Next]_vars

\* every upload is over after UPLOAD_TIMEOUT_MS at the latest: the timer set
\* by startUpload aborts a fetch that is still pending
SpecFair == Spec /\ \A job \in Jobs : WF_vars(UploadTimeout(job))

(***************************************************************************)
(* The alert store of the backend and the periodic re-fetch (fetchAlerts). *)
(* The interval timer sends a fetchAlerts request every 2 s, and so does   *)
(* the .then callback of an upload that created alerts; sending changes no *)
(* state of the page, so a request may reach the backend at any time.      *)
(***************************************************************************)
\* fetch('/api/alerts?limit=100')
AlertsLimit == 100

\* an alert as the store holds it: it has its creation instant
StoredAlert == {a \in Alert : a.timestamp # <<>>}

\* GET /alerts?limit=: the first limit alerts of the store, newest first
ListAlerts(st, limit) == SubSeq(st, 1, IF Len(st) < limit THEN Len(st) ELSE limit)

RemoveAt(list, i) ==
  [k \in 1..(Len(list) - 1) |-> IF k < i THEN list[k] ELSE list[k + 1]]

pollUnchanged ==
  UNCHANGED <<cameras, queueRef, activeUploadsRef, chunkCountersRef,
              captureInProgressRef, maxParallelUploads, capturing, inflight,
              enqueued, started, captureStarts, cycles, unhandledRejection,
              mergeCall, serverVars, detailVars, callVars, clientVars>>

\* the backend accepts a violation and creates alert a, the newest
StoreCreates(a) ==
  /\ a.id \notin Ids(store)
  /\ a.amended_images = <<>>
  /\ store' = <<a>> \o store
  /\ last' = Event("created", 0)
  /\ UNCHANGED <<alerts, pollResponses, optimistic>>
  /\ pollUnchanged

\* DELETE /alerts/{id} removes stored alert number i
StoreDeletes(i) ==
  /\ store' = RemoveAt(store, i)
  /\ last' = Event("deleted", 0)
  /\ UNCHANGED <<alerts, pollResponses, optimistic>>
  /\ pollUnchanged

\* GET /api/alerts: a fetchAlerts request reaches the backend, which answers
\* OK with its listing
AlertsListed ==
  /\ Len(pollResponses) < MaxPolls
  /\ pollResponses' = Append(pollResponses, ListAlerts(store, AlertsLimit))
  /\ last' = Event("listed", 0)
  /\ UNCHANGED <<alerts, store, optimistic>>
  /\ pollUnchanged

\* mutant: the fetched list is merged into the collection
FetchedMerged(prev, data) == mergeAlerts(prev, data)

\* setAlerts(data)
SetFetched(prev, data) == data

\* fetchAlerts after its awaits, the answer being OK: the collection is set
\* to the fetched list
FetchAlertsResponse(i) ==
  /\ alerts' = SetFetched(alerts, pollResponses[i])
  /\ pollResponses' = RemoveAt(pollResponses, i)
  /\ optimistic' = {}
  /\ last' = Event("fetched", 0)
  /\ UNCHANGED store
  /\ pollUnchanged

\* fetchAlerts when the answer is lost or not OK: the error is logged
FetchAlertsFails(i) ==
  /\ pollResponses' = RemoveAt(pollResponses, i)
  /\ last' = Event("fetchfailed", 0)
  /\ UNCHANGED <<alerts, store, optimistic>>
  /\ pollUnchanged

\* the page as the code configures it (MAX_PARALLEL_UPLOADS is infinite),
\* after its first capture cycle: every camera delivered chunk 1 and every
\* upload was answered without alerts
InitAlerts ==
  /\ InitServer
  /\ InitDetailClosed
  /\ InitCalls
  /\ cameras = [c \in Cameras |-> "idle"]
  /\ alerts = <<>>
  /\ queueRef = <<>>
  /\ activeUploadsRef = 0
  /\ chunkCountersRef = [c \in Cameras |-> 1]
  /\ captureInProgressRef = FALSE
  /\ capturing = {}
  /\ inflight = {}
  /\ enqueued = [j \in Jobs |-> IF j.chunkIndex = 1 THEN 1 ELSE 0]
  /\ started = [j \in Jobs |-> IF j.chunkIndex = 1 THEN 1 ELSE 0]
  /\ captureStarts = [c \in Cameras |-> 1]
  /\ cycles = 1
  /\ unhandledRejection = FALSE
  /\ last \in {Event("clear", c) : c \in Cameras}
  /\ store = <<>>
  /\ pollResponses = <<>>
  /\ optimistic = {}
  /\ maxParallelUploads = POSITIVE_INFINITY
  /\ mergeCall = NoMerge

\* what /api/analyze-video answers given the store: the alerts it returns
\* are alerts the backend created
StoreResponses ==
  {r \in AnalysisResponses :
     \A i \in 1..Len(r.alerts) : r.alerts[i].alert_id \in Ids(store)}

NextAlerts ==
  \/ CaptureChunkCycle
  \/ \E c \in Cameras : CaptureReturnsChunk(c)
  \/ \E c \in Cameras : CaptureFails(c)
  \/ \E job \in inflight, response \in StoreResponses, now \in 1..MaxTs :
       UploadResponse(job, response, now)
  \/ \E job \in inflight : UploadNetworkError(job)
  \/ \E job \in inflight : UploadTimeout(job)
  \/ \E a \in StoredAlert : StoreCreates(a)
  \/ \E i \in 1..Len(store) : StoreDeletes(i)
  \/ AlertsListed
  \/ \E i \in 1..Len(pollResponses) : FetchAlertsResponse(i)
  \/ \E i \in 1..Len(pollResponses) : FetchAlertsFails(i)

SpecAlerts == InitAlerts /\ [][NextAlerts]_vars

\* the interval timer keeps firing and the backend keeps answering, and
\* answers that arrive again and again are taken again and again
SpecAlertsFair ==
  /\ SpecAlerts
  /\ WF_vars(AlertsListed)
  /\ SF_vars(\E i \in 1..Len(pollResponses) : FetchAlertsResponse(i))

(***************************************************************************)
(* mergeAlerts as a pure function: a call on arbitrary alert lists.        *)
(***************************************************************************)
InitMerge ==
  /\ InitHome
  /\ maxParallelUploads = POSITIVE_INFINITY
  /\ mergeCall = NoMerge

mergeUnchanged ==
  UNCHANGED <<cameras, alerts, queueRef, activeUploadsRef, chunkCountersRef,
              captureInProgressRef, maxParallelUploads, capturing, inflight,
              enqueued, started, captureStarts, cycles, unhandledRejection,
              last, store, pollResponses, optimistic, serverVars, detailVars, callVars, clientVars>>

MergeArgsOpen ==
  /\ ~mergeCall.done
  /\ Len(mergeCall.existing) + Len(mergeCall.incoming) < MaxMergeLen

\* the caller's existing list gets one more alert
MergeGivenExisting(a) ==
  /\ MergeArgsOpen
  /\ mergeCall' = [mergeCall EXCEPT !.existing = Append(@, a)]
  /\ mergeUnchanged

\* the caller's incoming list gets one more alert
MergeGivenIncoming(a) ==
  /\ MergeArgsOpen
  /\ mergeCall' = [mergeCall EXCEPT !.incoming = Append(@, a)]
  /\ mergeUnchanged

\* the call mergeAlerts(existing, incoming) returns
MergeReturns ==
  /\ ~mergeCall.done
  /\ mergeCall' = [mergeCall EXCEPT !.done = TRUE,
                     !.result = mergeAlerts(mergeCall.existing, mergeCall.incoming)]
  /\ mergeUnchanged

NextMerge ==
  \/ \E a \in Alert : MergeGivenExisting(a)
  \/ \E a \in Alert : MergeGivenIncoming(a)
  \/ MergeReturns


SpecMerge == InitMerge /\ [][NextMerge]_vars

\* the caller builds one list X and passes it as both arguments
MergeGivenBoth(a) ==
  /\ ~mergeCall.done
  /\ mergeCall.existing = mergeCall.incoming
  /\ Len(mergeCall.existing) < MaxMergeLen
  /\ mergeCall' = [mergeCall EXCEPT !.existing = Append(@, a),
                                    !.incoming = Append(@, a)]
  /\ mergeUnchanged

NextMergeSelf ==
  \/ \E a \in Alert : MergeGivenBoth(a)
  \/ MergeReturns

SpecMergeSelf == InitMerge /\ [][NextMergeSelf]_vars

(***************************************************************************)
(* Policy lookups and amendments in the server process.                    *)
(***************************************************************************)
\* findPolicyById(id)
FindPolicyById(id) ==
  LET data == getPolicies(cachedPolicies, policyDoc)
  IN  /\ cachedPolicies' = data
      /\ found' = FindPolicy(data, id)
      /\ last' = Event("find", id)
      /\ UNCHANGED <<policyDoc, homeVars, detailVars, callVars, clientVars>>

\* the amendment engine writes a new version of the document, with the
\* description of policy p rewritten
WriteAmended(doc, p) ==
  [version |-> doc.version + 1,
   policies |-> [doc.policies EXCEPT ![p].description = doc.version + 1]]

\* POST /api/amend-policy, the backend answering OK: the policy of the alert
\* was amended and is relayed to the caller
AmendPolicyOk(p) ==
  /\ policyDoc.version < MaxVersion
  /\ policyDoc' = WriteAmended(policyDoc, p)
  /\ last' = Event("amended", p)
  /\ UNCHANGED <<cachedPolicies, found, homeVars, detailVars, callVars, clientVars>>

\* POST /api/amend-policy answering 400, 404, 503 or the backend's error: the
\* document is as it was
AmendPolicyFails ==
  /\ last' = Event("amendfailed", 0)
  /\ UNCHANGED <<policyDoc, cachedPolicies, found, homeVars, detailVars, callVars, clientVars>>

InitPolicy ==
  /\ InitHome
  /\ maxParallelUploads = POSITIVE_INFINITY
  /\ mergeCall = NoMerge

NextPolicy ==
  \/ \E id \in 1..(MaxPolicies + 1) : FindPolicyById(id)
  \/ \E p \in PolicyIds : AmendPolicyOk(p)
  \/ AmendPolicyFails

SpecPolicy == InitPolicy /\ [][NextPolicy]_vars

(***************************************************************************)
(* The alert detail page: loading the alert and waiting for its amended    *)
(* images.  The polling effect depends on [alert, id]: every setAlert      *)
(* cleans the running effect up (clearInterval) and runs it anew.          *)
(***************************************************************************)
POLL_INTERVAL == 3000

MAX_POLL_DURATION == 120000

\* the alert of the page, without or with amended images
DetailAlert(images) == [id |-> 1, amended_images |-> images]

\* alert?.amended_images && Array.isArray(...) && alert.amended_images.length > 0
HasAmendedImages(a) == a # Null /\ Len(a.amended_images) > 0

\* the body of the polling effect for alert a: does it start polling
StartsPolling(a) == ~(a = Null \/ HasAmendedImages(a))

\* setAlert(a) and the run of the polling effect it causes
SetAlert(a) ==
  /\ alert' = a
  /\ isPollingAmendedImages' = StartsPolling(a)
  /\ intervalActive' = StartsPolling(a)
  /\ elapsed' = IF StartsPolling(a) THEN 0 ELSE elapsed

\* the page is opened: the alert is taken from sessionStorage if cached, the
\* polling effect runs and fetchAlert sends its request
InitDetail ==
  /\ InitHomePage
  /\ InitServer
  /\ InitCalls
  /\ maxParallelUploads = POSITIVE_INFINITY
  /\ mergeCall = NoMerge
  /\ serverImages \in BOOLEAN
  /\ alert \in {Null, DetailAlert(<<>>)}
           \cup (IF serverImages THEN {DetailAlert(<<"amended">>)} ELSE {})
  /\ isPollingAmendedImages = StartsPolling(alert)
  /\ intervalActive = StartsPolling(alert)
  /\ elapsed = 0
  /\ error = FALSE
  /\ detailPolls = [sent |-> 0, plain |-> 0, amended |-> 0]
  /\ fetchPending = "sent"
  /\ pollingStopped = FALSE

\* GET /api/alerts/{id}: the alert as the backend holds it
Served == IF serverImages THEN "amended" ELSE "plain"

ImagesOf(answer) == IF answer = "amended" THEN <<"amended">> ELSE <<>>

\* the backend answers fetchAlert's request
FetchAlertServed ==
  /\ fetchPending = "sent"
  /\ fetchPending' = Served
  /\ last' = Event("served", 0)
  /\ UNCHANGED <<alert, error, isPollingAmendedImages, intervalActive, elapsed,
                 detailPolls, serverImages, pollingStopped, homeVars, serverVars,
                 callVars, clientVars>>

\* the backend answers a poll
PollServed ==
  /\ detailPolls.sent > 0
  /\ detailPolls' = [detailPolls EXCEPT !.sent = @ - 1, ![Served] = @ + 1]
  /\ last' = Event("pollserved", 0)
  /\ UNCHANGED <<alert, error, isPollingAmendedImages, intervalActive, elapsed,
                 fetchPending, serverImages, pollingStopped, homeVars, serverVars,
                 callVars, clientVars>>

\* fetchAlert, the response being OK
FetchAlertOk ==
  /\ fetchPending \in {"plain", "amended"}
  /\ fetchPending' = "none"
  /\ SetAlert(DetailAlert(ImagesOf(fetchPending)))
  /\ error' = FALSE
  /\ last' = Event("loaded", 0)
  /\ UNCHANGED <<detailPolls, serverImages, pollingStopped, homeVars, serverVars,
                 callVars, clientVars>>

\* the alert fetchAlert's catch block tests: the state of the render that
\* created the effect, null
ClosureAlert == Null

\* fetchAlert, the response being 404 or another error, or the fetch failing
FetchAlertFails ==
  /\ fetchPending # "none"
  /\ fetchPending' = "none"
  /\ error' = IF ClosureAlert = Null THEN TRUE ELSE error
  /\ last' = Event("loadfailed", 0)
  /\ UNCHANGED <<alert, isPollingAmendedImages, intervalActive, elapsed,
                 detailPolls, serverImages, pollingStopped, homeVars, serverVars,
                 callVars, clientVars>>

\* mutant: the budget is never found exhausted
BudgetNeverExhausted(t) == FALSE

\* Date.now() - startTime > MAX_POLL_DURATION
BudgetExhausted(t) == t > MAX_POLL_DURATION

PollsUnderWay == detailPolls.sent + detailPolls.plain + detailPolls.amended

\* the interval callback, up to the fetch of pollForAmendedImages: past the
\* budget it stops the polling, otherwise it sends a poll
PollTick(late) ==
  /\ intervalActive
  /\ elapsed' = elapsed + POLL_INTERVAL + late
  /\ IF BudgetExhausted(elapsed')
       THEN /\ isPollingAmendedImages' = FALSE
            /\ intervalActive' = FALSE
            /\ pollingStopped' = TRUE
            /\ last' = Event("budget", 0)
            /\ UNCHANGED detailPolls
       ELSE /\ PollsUnderWay < MaxDetailPolls
            /\ detailPolls' = [detailPolls EXCEPT !.sent = @ + 1]
            /\ last' = Event("poll", 0)
            /\ UNCHANGED <<isPollingAmendedImages, intervalActive, pollingStopped>>
  /\ UNCHANGED <<alert, error, fetchPending, serverImages, homeVars, serverVars,
                 callVars, clientVars>>

\* a poll is answered OK with amended images: the alert is set and the
\* polling stops (its interval is cleared)
PollReturnsImages ==
  /\ detailPolls.amended > 0
  /\ detailPolls' = [detailPolls EXCEPT !.amended = @ - 1]
  /\ SetAlert(DetailAlert(<<"amended">>))
  /\ pollingStopped' = TRUE
  /\ last' = Event("images", 0)
  /\ UNCHANGED <<error, fetchPending, serverImages, homeVars, serverVars, callVars, clientVars>>

\* a poll is answered OK without amended images: the polling goes on
PollReturnsNone ==
  /\ detailPolls.plain > 0
  /\ detailPolls' = [detailPolls EXCEPT !.plain = @ - 1]
  /\ last' = Event("noimages", 0)
  /\ UNCHANGED <<alert, error, isPollingAmendedImages, intervalActive, elapsed,
                 fetchPending, serverImages, pollingStopped, homeVars, serverVars,
                 callVars, clientVars>>

\* a poll is answered not OK, or its fetch fails: the error is logged
PollFails(k) ==
  /\ detailPolls[k] > 0
  /\ detailPolls' = [detailPolls EXCEPT ![k] = @ - 1]
  /\ last' = Event("pollfailed", 0)
  /\ UNCHANGED <<alert, error, isPollingAmendedImages, intervalActive, elapsed,
                 fetchPending, serverImages, pollingStopped, homeVars, serverVars,
                 callVars, clientVars>>

\* the remediation-visualization job of the backend completes
ImagesArrive ==
  /\ ~serverImages
  /\ serverImages' = TRUE
  /\ last' = Event("generated", 0)
  /\ UNCHANGED <<alert, error, isPollingAmendedImages, intervalActive, elapsed,
                 detailPolls, fetchPending, pollingStopped, homeVars, serverVars,
                 callVars, clientVars>>

\* a step of the polling effect's callbacks
PollStep ==
  \/ \E late \in 0..MaxLate : PollTick(late)
  \/ PollReturnsImages
  \/ PollReturnsNone
  \/ \E k \in {"sent", "plain", "amended"} : PollFails(k)

NextDetail ==
  \/ FetchAlertServed
  \/ PollServed
  \/ FetchAlertOk
  \/ FetchAlertFails
  \/ PollStep
  \/ ImagesArrive

SpecDetail == InitDetail /\ [][NextDetail]_vars

\* the interval timer fires while it is set, and every poll sent is answered
\* and settles
SpecDetailFair ==
  /\ SpecDetail
  /\ WF_vars(\E late \in 0..MaxLate : PollTick(late))
  /\ WF_vars(PollServed)
  /\ WF_vars(PollReturnsImages \/ PollReturnsNone
               \/ \E k \in {"sent", "plain", "amended"} : PollFails(k))

(***************************************************************************)
(* The classifier client (lib/gemini): analyzeVideo and analyzeFrame.  The *)
(* model's output is a text of tokens: "[" and "]", "v" for the text of a  *)
(* JSON value with the separator it needs, and "p" for any other text.     *)
(***************************************************************************)
Tokens == {"[", "]", "v", "p"}

Texts == UNION {[1..n -> Tokens] : n \in 0..MaxTextLen}

NoMatch == [found |-> FALSE, text |-> <<>>]

\* mutant: the whole text is taken as the match
MatchWholeText(text) == [found |-> TRUE, text |-> text]

\* text.match(/\[[\s\S]*\]/): from the first "[" to the last "]" after it
JsonMatch(text) ==
  LET opens == {i \in 1..Len(text) : text[i] = "["}
      closes == {j \in 1..Len(text) : text[j] = "]"}
  IN  IF opens = {} THEN NoMatch
      ELSE LET i == CHOOSE m \in opens : \A k \in opens : m <= k
               after == {j \in closes : j > i}
           IN  IF after = {} THEN NoMatch
               ELSE [found |-> TRUE,
                     text |-> SubSeq(text, i, CHOOSE m \in after : \A k \in after : m >= k)]

\* the index of the "]" that closes the "[" at 1 of t, or 0 if none does
RECURSIVE ClosingAt(_, _, _)
ClosingAt(t, i, depth) ==
  IF i > Len(t) THEN 0
  ELSE IF t[i] = "[" THEN ClosingAt(t, i + 1, depth + 1)
  ELSE IF t[i] = "]"
    THEN (IF depth = 1 THEN i ELSE ClosingAt(t, i + 1, depth - 1))
  ELSE ClosingAt(t, i + 1, depth)

\* t is the text of zero or more JSON values
RECURSIVE IsValues(_)
IsValues(t) ==
  IF t = <<>> THEN TRUE
  ELSE IF t[1] = "v" THEN IsValues(Tail(t))
  ELSE IF t[1] = "["
    THEN LET c == ClosingAt(t, 2, 1)
         IN  /\ c > 0
             /\ IsValues(SubSeq(t, 2, c - 1))
             /\ IsValues(SubSeq(t, c + 1, Len(t)))
  ELSE FALSE

\* the values a text of JSON values holds: "v" for a value, "a" for an array
RECURSIVE Values(_)
Values(t) ==
  IF t = <<>> THEN <<>>
  ELSE IF t[1] = "v" THEN <<"v">> \o Values(Tail(t))
  ELSE <<"a">> \o Values(SubSeq(t, ClosingAt(t, 2, 1) + 1, Len(t)))

\* t is the text of one JSON array
IsJsonArray(t) ==
  /\ Len(t) >= 2
  /\ t[1] = "["
  /\ ClosingAt(t, 2, 1) = Len(t)
  /\ IsValues(SubSeq(t, 2, Len(t) - 1))

\* JSON.parse(t) for a matched text (it starts with "[" and ends with "]"):
\* the array, or a SyntaxError
JsonParse(t) ==
  IF IsJsonArray(t)
    THEN [threw |-> FALSE, value |-> Values(SubSeq(t, 2, Len(t) - 1))]
    ELSE [threw |-> TRUE, value |-> <<>>]

\* analyzeVideo given what generateContent did: the catch block logs the
\* error and throws it again
analyzeVideo(fails, text) ==
  IF fails THEN [result |-> <<>>, threw |-> TRUE]
  ELSE LET jsonMatch == JsonMatch(text)
       IN  IF ~jsonMatch.found THEN [result |-> <<>>, threw |-> FALSE]
           ELSE LET parsed == JsonParse(jsonMatch.text)
                IN  IF parsed.threw THEN [result |-> <<>>, threw |-> TRUE]
                    ELSE [result |-> parsed.value, threw |-> FALSE]

\* analyzeFrame given what generateContent did: the catch block logs the
\* error and returns []
analyzeFrame(fails, text) ==
  IF fails THEN [result |-> <<>>, threw |-> FALSE]
  ELSE LET jsonMatch == JsonMatch(text)
       IN  IF ~jsonMatch.found THEN [result |-> <<>>, threw |-> FALSE]
           ELSE LET parsed == JsonParse(jsonMatch.text)
                IN  IF parsed.threw THEN [result |-> <<>>, threw |-> FALSE]
                    ELSE [result |-> parsed.value, threw |-> FALSE]

\* a call of analyzeVideo or analyzeFrame; the model answers with a text (an
\* empty one if response.text is missing) or generateContent fails
InitClassify ==
  /\ InitHomePage
  /\ InitServer
  /\ InitDetailClosed
  /\ maxParallelUploads = POSITIVE_INFINITY
  /\ mergeCall = NoMerge
  /\ proxyCall = NoProxy
  /\ InitClient
  /\ classifyCall \in
       {[fn |-> f, fails |-> b, text |-> t, done |-> FALSE, result |-> <<>>,
         threw |-> FALSE] :
          f \in {"analyzeVideo", "analyzeFrame"}, b \in BOOLEAN, t \in Texts}

\* the call returns or throws
ClassifyReturns ==
  /\ ~classifyCall.done
  /\ LET out == IF classifyCall.fn = "analyzeVideo"
                  THEN analyzeVideo(classifyCall.fails, classifyCall.text)
                  ELSE analyzeFrame(classifyCall.fails, classifyCall.text)
     IN  classifyCall' = [classifyCall EXCEPT !.done = TRUE,
                            !.result = out.result, !.threw = out.threw]
  /\ last' = Event("classified", 0)
  /\ UNCHANGED <<homeVars, serverVars, detailVars, proxyCall, clientVars>>

NextClassify == ClassifyReturns

SpecClassify == InitClassify /\ [][NextClassify]_vars

(***************************************************************************)
(* The analysis submission proxy, POST /api/analyze-video.  A request has  *)
(* a multipart or a JSON body, readable or not, with or without video_url  *)
(* and video_base64.  The backend, if called, answers with a status and a  *)
(* body that is JSON or not, or is unreachable, or the call is aborted by  *)
(* the request deadline.                                                   *)
(***************************************************************************)
BackendStatuses == {200, 400, 404, 500, 503, 504}

BackendOutcomes ==
  {[kind |-> "answer", status |-> st, json |-> b] :
     st \in BackendStatuses, b \in BOOLEAN}
  \cup {[kind |-> k, status |-> 0, json |-> FALSE] : k \in {"unreachable", "aborted"}}

ProxyRequests ==
  {[multipart |-> m, readable |-> r, video_url |-> u, video_base64 |-> v,
    backend |-> o, done |-> FALSE, status |-> 0, contacted |-> FALSE] :
     m \in BOOLEAN, r \in BOOLEAN, u \in BOOLEAN, v \in BOOLEAN,
     o \in BackendOutcomes}

\* response.ok
ResponseOk(st) == st >= 200 /\ st <= 299

\* what follows fetch(`${BACKEND_URL}/analyze-video-full`)
Forwarded(o) ==
  IF o.kind = "aborted" THEN [status |-> 504, contacted |-> TRUE]
  ELSE IF o.kind = "unreachable" THEN [status |-> 503, contacted |-> TRUE]
  ELSE IF ~ResponseOk(o.status) THEN [status |-> o.status, contacted |-> TRUE]
  ELSE IF ~o.json THEN [status |-> 503, contacted |-> TRUE]
  ELSE [status |-> 200, contacted |-> TRUE]

\* mutant: the JSON branch forwards without looking at the fields
PostWithoutFieldCheck(req) ==
  IF ~req.readable THEN [status |-> 503, contacted |-> FALSE]
  ELSE Forwarded(req.backend)

\* POST: the status of the answer and whether the backend was called
Post(req) ==
  IF ~req.readable THEN [status |-> 503, contacted |-> FALSE]
  ELSE IF req.multipart THEN Forwarded(req.backend)
  ELSE IF ~req.video_url /\ ~req.video_base64
    THEN [status |-> 400, contacted |-> FALSE]
  ELSE Forwarded(req.backend)

InitProxy ==
  /\ InitHomePage
  /\ InitServer
  /\ InitDetailClosed
  /\ maxParallelUploads = POSITIVE_INFINITY
  /\ mergeCall = NoMerge
  /\ classifyCall = NoClassify
  /\ InitClient
  /\ proxyCall \in ProxyRequests

\* the route answers the request
ProxyAnswers ==
  /\ ~proxyCall.done
  /\ LET out == Post(proxyCall)
     IN  proxyCall' = [proxyCall EXCEPT !.done = TRUE, !.status = out.status,
                         !.contacted = out.contacted]
  /\ last' = Event("answered", 0)
  /\ UNCHANGED <<homeVars, serverVars, detailVars, classifyCall, clientVars>>

NextProxy == ProxyAnswers

SpecProxy == InitProxy /\ [][NextProxy]_vars

(***************************************************************************)
(* The policy fields of an alert: mapBackendAlertToUI, and the severity    *)
(* class the alert card, the alert detail page and the dashboard counters  *)
(* give to its policy_level.                                               *)
(***************************************************************************)
\* an entry of result.alerts: alert_id (0: none), policy_id and policy_level
\* (<<>>: undefined); policy MaxPolicies + 1 is not in the policy document
IncomingAlerts ==
  [alert_id : 0..MaxAlertId,
   policy_id : {<<>>} \cup {<<p>> : p \in 1..(MaxPolicies + 1)},
   policy_level : {<<>>} \cup {<<l>> : l \in 1..MaxLevel}]

\* mapBackendAlertToUI: id, policy_id ?? -1 and policy_level ?? 0
mapBackendAlertPolicy(incoming) ==
  IF incoming.alert_id = 0 THEN NoAlert
  ELSE [id |-> incoming.alert_id,
        policy_id |-> IF incoming.policy_id = <<>> THEN -1 ELSE incoming.policy_id[1],
        policy_level |-> IF incoming.policy_level = <<>> THEN 0
                         ELSE incoming.policy_level[1]]

\* getRiskStyle of AlertCard: switch (alert.policy_level)
CardRisk(level) ==
  IF level = 3 THEN "high"
  ELSE IF level = 2 THEN "medium"
  ELSE "low"

\* getRiskStyle(level) of the alert detail page
DetailRisk(level) ==
  IF level >= 3 THEN "high"
  ELSE IF level >= 2 THEN "medium"
  ELSE "low"

\* the counter of the Home page that counts an alert of this level
DashboardRisk(level) ==
  IF level = 3 THEN "high"
  ELSE IF level = 2 THEN "medium"
  ELSE IF level = 1 THEN "low"
  ELSE "none"

InitMapper ==
  /\ InitHomePage
  /\ InitServer
  /\ InitDetailClosed
  /\ maxParallelUploads = POSITIVE_INFINITY
  /\ mergeCall = NoMerge
  /\ classifyCall = NoClassify
  /\ proxyCall = NoProxy
  /\ InitLiveCamera
  /\ InitViolations
  /\ mapCall \in {[NoMap EXCEPT !.incoming = i] : i \in IncomingAlerts}

\* result.alerts.map(mapBackendAlertToUI)
MapReturns ==
  /\ ~mapCall.done
  /\ mapCall' = [mapCall EXCEPT !.done = TRUE,
                   !.result = mapBackendAlertPolicy(mapCall.incoming)]
  /\ last' = Event("mapped", 0)
  /\ UNCHANGED <<homeVars, serverVars, detailVars, callVars, liveVars>>

\* .filter((a) => Boolean(a)) and the merge: an alert that is not null is
\* placed in the collection
AlertPlaced ==
  /\ mapCall.done
  /\ ~mapCall.placed
  /\ mapCall.result # NoAlert
  /\ mapCall' = [mapCall EXCEPT !.placed = TRUE]
  /\ last' = Event("placed", 0)
  /\ UNCHANGED <<homeVars, serverVars, detailVars, callVars, liveVars>>

\* the Home page, the alert card and the alert detail page render the alert
AlertShown ==
  /\ mapCall.placed
  /\ mapCall.shown = NoShow
  /\ mapCall' = [mapCall EXCEPT !.shown =
                   [card |-> CardRisk(mapCall.result.policy_level),
                    detail |-> DetailRisk(mapCall.result.policy_level),
                    dashboard |-> DashboardRisk(mapCall.result.policy_level)]]
  /\ last' = Event("shown", 0)
  /\ UNCHANGED <<homeVars, serverVars, detailVars, callVars, liveVars>>

NextMapper ==
  \/ MapReturns
  \/ AlertPlaced
  \/ AlertShown

SpecMapper == InitMapper /\ [][NextMapper]_vars

(***************************************************************************)
(* The LiveCamera component.  Its effect depends on isActive, on           *)
(* onStatusChange and on captureAndAnalyze, and captureAndAnalyze is made  *)
(* anew whenever elapsedTime changes, so while active the effect runs      *)
(* again with every tick of the elapsed-time timer.                        *)
(***************************************************************************)
liveUnchanged ==
  UNCHANGED <<homeVars, serverVars, detailVars, callVars, mapCall, violations>>

\* the effect's body with isActive true: camera access is requested (and the
\* elapsed-time timer set)
EffectActive ==
  /\ pendingMedia < MaxPendingMedia
  /\ pendingMedia' = pendingMedia + 1
  /\ UNCHANGED <<liveIntervalRef, liveTimers, timersCreated, liveRequests>>

\* the effect's body with isActive false: the timer intervalRef holds, if
\* any, is cleared
EffectInactive ==
  /\ liveTimers' = liveTimers \ {liveIntervalRef}
  /\ liveIntervalRef' = 0
  /\ UNCHANGED <<timersCreated, pendingMedia, liveRequests>>

\* isActive becomes true
Activate ==
  /\ ~isActive
  /\ isActive' = TRUE
  /\ EffectActive
  /\ last' = Event("activate", 0)
  /\ liveUnchanged

\* isActive becomes false: the cleanup clears the elapsed-time timer and the
\* effect runs its else branch
Deactivate ==
  /\ isActive
  /\ isActive' = FALSE
  /\ EffectInactive
  /\ last' = Event("deactivate", 0)
  /\ liveUnchanged

\* the elapsed-time timer fires: elapsedTime changes, captureAndAnalyze is a
\* new function and the effect runs again (cleanup, then the body)
ElapsedTick ==
  /\ isActive
  /\ EffectActive
  /\ last' = Event("elapsed", 0)
  /\ UNCHANGED isActive
  /\ liveUnchanged

\* getUserMedia resolves: a frame-analysis timer is set and stored in
\* intervalRef
MediaResolves ==
  /\ pendingMedia > 0
  /\ timersCreated < MaxTimers
  /\ pendingMedia' = pendingMedia - 1
  /\ timersCreated' = timersCreated + 1
  /\ liveTimers' = liveTimers \cup {timersCreated'}
  /\ liveIntervalRef' = timersCreated'
  /\ last' = Event("media", 0)
  /\ UNCHANGED <<isActive, liveRequests>>
  /\ liveUnchanged

\* getUserMedia rejects
MediaRejects ==
  /\ pendingMedia > 0
  /\ pendingMedia' = pendingMedia - 1
  /\ last' = Event("nomedia", 0)
  /\ UNCHANGED <<isActive, liveIntervalRef, liveTimers, timersCreated, liveRequests>>
  /\ liveUnchanged

\* a frame-analysis timer fires: captureAndAnalyze draws the frame (the video
\* and canvas elements are always mounted) and posts it
AnalysisTick(t) ==
  /\ t \in liveTimers
  /\ liveRequests < MaxLiveRequests
  /\ liveRequests' = liveRequests + 1
  /\ last' = Event("frame", t)
  /\ UNCHANGED <<isActive, liveIntervalRef, liveTimers, timersCreated, pendingMedia>>
  /\ liveUnchanged

InitLive ==
  /\ InitHome
  /\ maxParallelUploads = POSITIVE_INFINITY
  /\ mergeCall = NoMerge

NextLive ==
  \/ Activate
  \/ Deactivate
  \/ ElapsedTick
  \/ MediaResolves
  \/ MediaRejects
  \/ \E t \in 1..MaxTimers : AnalysisTick(t)

SpecLive == InitLive /\ [][NextLive]_vars

(***************************************************************************)
(* The violations list of the live page: handleLiveViolations.  Strings    *)
(* are sequences of characters, so that the key timestamp + policy_name is *)
(* the concatenation the code computes.                                    *)
(***************************************************************************)
LiveTimestamps == {<<"0">>, <<"0", "1">>}

LivePolicyNames == {<<"p">>, <<"1", "p">>}

Violation == [timestamp : LiveTimestamps, policy_name : LivePolicyNames]

\* v.timestamp + v.policy_name
ViolationKey(v) == v.timestamp \o v.policy_name

RECURSIVE FilterNew(_, _)
FilterNew(list, existing) ==
  IF list = <<>> THEN <<>>
  ELSE (IF ViolationKey(Head(list)) \in existing THEN <<>> ELSE <<Head(list)>>)
         \o FilterNew(Tail(list), existing)

\* the updater of handleLiveViolations
AddLiveViolations(prev, newViolations) ==
  LET existing == {ViolationKey(prev[i]) : i \in 1..Len(prev)}
      unique == FilterNew(newViolations, existing)
  IN  prev \o unique

violationsUnchanged ==
  UNCHANGED <<homeVars, serverVars, detailVars, callVars, mapCall, isActive,
              liveIntervalRef, liveTimers, timersCreated, pendingMedia, liveRequests>>

\* onViolationsDetected(data.violations)
HandleLiveViolations(newViolations) ==
  /\ Len(newViolations) > 0
  /\ Len(violations) + Len(newViolations) <= MaxViolations
  /\ violations' = AddLiveViolations(violations, newViolations)
  /\ last' = Event("violations", 0)
  /\ violationsUnchanged

\* toggleCamera when the camera is switched on: setViolations([])
ClearViolations ==
  /\ violations # <<>>
  /\ violations' = <<>>
  /\ last' = Event("cleared", 0)
  /\ violationsUnchanged

NextViolations ==
  \/ \E newViolations \in SeqUpTo(Violation, MaxBatch) :
       HandleLiveViolations(newViolations)
  \/ ClearViolations

SpecViolations == InitLive /\ [][NextViolations]_vars

(***************************************************************************)
(* Properties of mergeAlerts.                                              *)
(***************************************************************************)
\* the last record of list with id k
LastWithId(list, k) ==
  list[CHOOSE i \in 1..Len(list) :
         /\ list[i].id = k
         /\ \A j \in (i + 1)..Len(list) : list[j].id # k]

DistinctIds(list) == \A i, j \in 1..Len(list) : list[i].id = list[j].id => i = j

\* C4 (merge freshness): for every id k present in both existing and
\* incoming, the merged list holds for k exactly the record incoming gives k
\* (the last one, should incoming repeat k), whatever existing held.
MergeFreshness ==
  mergeCall.done =>
    \A k \in Ids(mergeCall.existing) \cap Ids(mergeCall.incoming) :
      \A i \in 1..Len(mergeCall.result) :
        mergeCall.result[i].id = k =>
          mergeCall.result[i] = LastWithId(mergeCall.incoming, k)

\* a merge where existing and incoming differ on a shared id, in timestamp
\* and in amended_images
MergeFreshnessWitness ==
  /\ mergeCall.done
  /\ \E i \in 1..Len(mergeCall.existing), j \in 1..Len(mergeCall.incoming) :
       /\ mergeCall.existing[i].id = mergeCall.incoming[j].id
       /\ mergeCall.existing[i].amended_images # <<>>
       /\ mergeCall.incoming[j].amended_images = <<>>
       /\ mergeCall.existing[i].timestamp # mergeCall.incoming[j].timestamp
       /\ \E r \in 1..Len(mergeCall.result) : mergeCall.result[r] = mergeCall.incoming[j]

\* C5 (merge identity-uniqueness): the merged list holds at most one alert
\* per id, and an alert for every id of the inputs.
MergeUniqueIds ==
  mergeCall.done =>
    /\ DistinctIds(mergeCall.result)
    /\ Ids(mergeCall.result) = Ids(mergeCall.existing) \cup Ids(mergeCall.incoming)

\* a merge whose inputs repeat an id, within existing and across the two
MergeUniqueIdsWitness ==
  /\ mergeCall.done
  /\ ~DistinctIds(mergeCall.existing)
  /\ Ids(mergeCall.existing) \cap Ids(mergeCall.incoming) # {}
  /\ Len(mergeCall.result) = 1

SameRecords(list, other) ==
  /\ Len(list) = Len(other)
  /\ \A a \in Alert :
       Cardinality({i \in 1..Len(list) : list[i] = a})
         = Cardinality({i \in 1..Len(other) : other[i] = a})

InQueue(j) == Cardinality({i \in 1..Len(queueRef) : queueRef[i] = j})

\* C1 (overlap prevention): while a capture cycle is in progress (some
\* capture of it has not finished), a further call of captureChunkCycle
\* starts no capture for any camera and enqueues no job; uploads of the
\* earlier cycle may be in flight meanwhile.
OverlapPrevention ==
  [][(capturing # {} /\ CaptureChunkCycle) =>
       /\ captureStarts' = captureStarts
       /\ capturing' = capturing
       /\ cycles' = cycles
       /\ enqueued' = enqueued
       /\ queueRef' = queueRef
       /\ inflight' = inflight
       /\ chunkCountersRef' = chunkCountersRef]_vars

\* a second trigger arrived while camera 1 was still capturing and an upload
\* of the same cycle was in flight; one capture per camera has been started
OverlapPreventionWitness ==
  /\ last.op = "skip"
  /\ 1 \in capturing
  /\ inflight # {}
  /\ cycles = 1
  /\ \A c \in Cameras : captureStarts[c] = 1

\* C2 (concurrency bound): for a finite MAX_PARALLEL_UPLOADS = W, whatever
\* jobs are enqueued and whatever uploads complete, at most W uploads are
\* active, by the counter and by the fetches in flight.
ConcurrencyBound ==
  maxParallelUploads.finite =>
    /\ activeUploadsRef <= maxParallelUploads.n
    /\ Cardinality(inflight) <= maxParallelUploads.n

\* W = 2, two uploads active and two more jobs waiting
ConcurrencyBoundWitness ==
  /\ maxParallelUploads.finite
  /\ maxParallelUploads.n = 2
  /\ Cardinality(inflight) = 2
  /\ activeUploadsRef = 2
  /\ Len(queueRef) = 2

\* C3 (timeout): when the deadline of an upload passes, the upload is over,
\* its camera is idle, the alert collection is as it was, and the rejection
\* is handled.
TimeoutBehaviour ==
  [][\A job \in Jobs :
       UploadTimeout(job) =>
         /\ job \notin inflight'
         /\ cameras'[job.cameraId] = "idle"
         /\ alerts' = alerts
         /\ ~unhandledRejection']_vars

\* an upload of camera 1 timed out while the collection held an alert and
\* camera 2 showed one
TimeoutBehaviourWitness ==
  /\ last = Event("timeout", 1)
  /\ cameras[1] = "idle"
  /\ cameras[2] = "alert"
  /\ alerts # <<>>
  /\ ~unhandledRejection

\* C8 (chunk index): whenever a job is enqueued it is the first job with its
\* camera and index, and its index is larger than that of every job enqueued
\* before for the same camera.
ChunkIndexIncreasing ==
  [][\A j \in Jobs :
       enqueued'[j] > enqueued[j] =>
         /\ enqueued'[j] = 1
         /\ \A k \in Jobs :
              (k.cameraId = j.cameraId /\ enqueued[k] > 0) =>
                k.chunkIndex < j.chunkIndex]_vars

\* two cycles ran, with a trigger skipped in between; camera 1 delivered
\* chunks 1 and 2, camera 2 only its chunk 1, in the second cycle
ChunkIndexIncreasingWitness ==
  /\ cycles = 2
  /\ enqueued[ChunkJob(1, 1)] = 1
  /\ enqueued[ChunkJob(1, 2)] = 1
  /\ enqueued[ChunkJob(2, 1)] = 1
  /\ enqueued[ChunkJob(2, 2)] = 0
  /\ last = Event("chunk", 2)
  /\ chunkCountersRef[2] = 1

\* C9 (consumed exactly once): every job was enqueued at most once and its
\* upload started at most once; an enqueued job is either still queued, once,
\* or its upload was started, never both; only started uploads are in flight.
ConsumedExactlyOnce ==
  \A j \in Jobs :
    /\ enqueued[j] <= 1
    /\ started[j] <= 1
    /\ enqueued[j] = started[j] + InQueue(j)
    /\ j \in inflight => started[j] = 1

\* W = 1: the first upload timed out, the second was then started from the
\* queue, and a third job waits; the timed-out job is nowhere
ConsumedExactlyOnceWitness ==
  /\ last.op = "timeout"
  /\ Len(queueRef) = 1
  /\ Cardinality(inflight) = 1
  /\ \E j \in Jobs :
       /\ started[j] = 1
       /\ j \notin inflight
       /\ InQueue(j) = 0

OnlyIdles(c) ==
  /\ cameras'[c] = "idle"
  /\ \A d \in Cameras \ {c} : cameras'[d] = cameras[d]
  /\ alerts' = alerts
  /\ ~unhandledRejection'

\* every queued job is still queued or its upload has been started
QueueKept ==
  \A i \in 1..Len(queueRef) :
    \/ queueRef[i] \in inflight'
    \/ \E k \in 1..Len(queueRef') : queueRef'[k] = queueRef[i]

ResultKnown(c) ==
  \/ CaptureFails(c)
  \/ \E job \in Jobs :
       /\ job.cameraId = c
       /\ job \in inflight
       /\ job \notin inflight'

\* C20 (per-camera state machine): a camera becomes analyzing when a capture
\* cycle begins, and every cycle that begins makes it analyzing; every other
\* change of its status leads from analyzing to alert or idle and is made
\* when the result of an upload of that camera is known or its capture
\* fails.
CameraStateMachine ==
  [][\A c \in Cameras :
       /\ captureStarts'[c] > captureStarts[c] => cameras'[c] = "analyzing"
       /\ cameras'[c] # cameras[c] =>
            \/ /\ cameras'[c] = "analyzing"
               /\ captureStarts'[c] > captureStarts[c]
            \/ /\ cameras[c] = "analyzing"
               /\ cameras'[c] \in {"alert", "idle"}
               /\ ResultKnown(c)]_vars

\* C23 (drain liveness): when an upload completes, the active count is the
\* old one less one plus the uploads started from the queue in that step,
\* and the queue is then empty or the count is at the bound; and every
\* enqueued job's upload is eventually started.
DrainLiveness ==
  /\ [][\A job \in Jobs :
          (job \in inflight /\ job \notin inflight') =>
            /\ activeUploadsRef' =
                 activeUploadsRef - 1 + (Len(queueRef) - Len(queueRef'))
            /\ Len(queueRef') = 0 \/ ~Below(activeUploadsRef', maxParallelUploads)]_vars
  /\ \A j \in Jobs : (enqueued[j] > 0) ~> (started[j] > 0)

\* W = 1: an upload timed out and the job that waited in the queue behind it
\* was started by that completion; nothing is left in the queue
DrainLivenessWitness ==
  /\ maxParallelUploads = [finite |-> TRUE, n |-> 1]
  /\ last.op = "timeout"
  /\ Cardinality(inflight) = 1
  /\ queueRef = <<>>
  /\ \E j \in Jobs : started[j] = 1 /\ j \notin inflight

\* the queue with the job enqueued in this step, if any, at its end
QueueWithNew ==
  IF \E j \in Jobs : enqueued'[j] > enqueued[j]
    THEN Append(queueRef, CHOOSE j \in Jobs : enqueued'[j] > enqueued[j])
    ELSE queueRef

\* C24 (FIFO start order): in every step the uploads started are those of
\* the first jobs of the queue (the job enqueued in the step being its last),
\* started in the queue's order, and the jobs behind them stay queued in
\* their order; so no job starts before a job enqueued earlier.
FifoStartOrder ==
  [][LET full == QueueWithNew
         k == Len(full) - Len(queueRef')
     IN  /\ k >= 0
         /\ queueRef' = SubSeq(full, k + 1, Len(full))
         /\ {j \in Jobs : started'[j] > started[j]} = {full[i] : i \in 1..k}
         /\ drainStarts([Sched EXCEPT !.queue = full,
                                      !.active = activeUploadsRef' - k],
                        maxParallelUploads) = SubSeq(full, 1, k)]_vars

\* W = 1: three jobs waited behind the first upload; when it failed, the job
\* enqueued first among them was started and the other two stay queued in
\* the order they were enqueued
FifoStartOrderWitness ==
  /\ maxParallelUploads = [finite |-> TRUE, n |-> 1]
  /\ last = Event("error", 1)
  /\ inflight = {ChunkJob(2, 1)}
  /\ queueRef = <<ChunkJob(1, 2), ChunkJob(2, 2)>>

\* camera c has a capture in progress or an upload in flight
Pending(c) ==
  \/ c \in capturing
  \/ \E job \in inflight : job.cameraId = c

\* C25 (status while pending): a camera with a capture in progress or an
\* upload in flight is analyzing.
AnalyzingWhilePending ==
  \A c \in Cameras : Pending(c) => cameras[c] = "analyzing"

\* C26 (guard released): whenever no capture is pending the single-flight
\* flag is false, however the captures of the cycle ended, and a cycle
\* triggered then starts capturing on every camera.
GuardReleased ==
  /\ [](capturing = {} => ~captureInProgressRef)
  /\ [][(CaptureChunkCycle /\ capturing = {}) =>
          /\ captureInProgressRef'
          /\ capturing' = Cameras
          /\ cycles' = cycles + 1]_vars

\* the first cycle ended with camera 1's capture failing after camera 2 had
\* delivered its chunk, and the second cycle has started capturing
GuardReleasedWitness ==
  /\ last = Event("cycle", 0)
  /\ cycles = 2
  /\ chunkCountersRef[1] = 0
  /\ chunkCountersRef[2] = 1
  /\ captureInProgressRef
  /\ capturing = Cameras

\* C27 (no idle capacity): for a finite bound W, while a job waits in the
\* queue the active count equals W.
NoIdleCapacity ==
  (maxParallelUploads.finite /\ Len(queueRef) > 0) =>
    activeUploadsRef = maxParallelUploads.n

\* W = 2: two uploads are active and the two jobs of the second cycle wait
NoIdleCapacityWitness ==
  /\ maxParallelUploads = [finite |-> TRUE, n |-> 2]
  /\ activeUploadsRef = 2
  /\ queueRef = <<ChunkJob(2, 2), ChunkJob(1, 2)>>

\* C30 (active count): activeUploadsRef is the number of uploads started and
\* not yet completed, and when an upload completes the count is at least 1,
\* so the decrement never gives less than 0.
ActiveCountExact ==
  /\ [](activeUploadsRef = Cardinality(inflight))
  /\ [][\A job \in Jobs :
          (job \in inflight /\ job \notin inflight') => activeUploadsRef - 1 >= 0]_vars

\* the last of four uploads has completed and the count is back at 0
ActiveCountExactWitness ==
  /\ activeUploadsRef = 0
  /\ inflight = {}
  /\ queueRef = <<>>
  /\ \A c \in Cameras : started[ChunkJob(c, 1)] = 1 /\ started[ChunkJob(c, 2)] = 1

NoLostUpdate ==
  [][\A i \in 1..Len(pollResponses) :
       FetchAlertsResponse(i) =>
         \A k \in optimistic :
           (k \in Ids(store) /\ k \notin Ids(pollResponses[i])) =>
             k \in Ids(alerts')]_vars

\* C13 (reconciliation convergence): if from some time on the store does
\* not change and no upload is in flight, then from some time on the alert
\* collection is the store's listing, alerts deleted from the store gone.
ReconciliationConverges ==
  (<>[][store' = store]_vars /\ <>[](inflight = {})) =>
    <>[](alerts = ListAlerts(store, AlertsLimit))

\* a re-fetch emptied the collection after the store's alerts were deleted;
\* an upload had reported an alert before
ReconciliationConvergesWitness ==
  /\ last.op = "fetched"
  /\ store = <<>>
  /\ alerts = <<>>
  /\ inflight = {}
  /\ pollResponses = <<>>
  /\ \E c \in Cameras : cameras[c] = "alert"

(***************************************************************************)
(* Properties of the policy document.                                      *)
(***************************************************************************)
\* C14 (amendment version monotonicity): a successful amendment makes the
\* document's version strictly greater, and every findPolicyById call gives
\* the policy as the current document has it, so never a description from
\* before a successful amendment.
AmendmentVisible ==
  [][/\ \A p \in PolicyIds :
          AmendPolicyOk(p) => policyDoc'.version > policyDoc.version
     /\ \A id \in 1..(MaxPolicies + 1) :
          FindPolicyById(id) => found' = FindPolicy(policyDoc, id)]_vars

(***************************************************************************)
(* Properties of the alert detail page.                                    *)
(***************************************************************************)
\* C15 (amended-image wait): the polling for amended images stops for good;
\* while the loaded alert lacks amended images the polling is stopped only
\* when the budget is exhausted; a poll that returns amended images stores
\* them in the alert and stops the polling; no step of the polling sets an
\* error state; a poll is issued only while the polling runs, for an alert
\* without amended images and within the budget; and once the polling was
\* stopped no poll is issued any more.
AmendedImageWait ==
  /\ <>[](~intervalActive /\ ~isPollingAmendedImages)
  /\ []((alert # Null /\ ~HasAmendedImages(alert) /\ ~intervalActive) =>
          elapsed > MAX_POLL_DURATION)
  /\ [][/\ PollReturnsImages =>
             /\ alert'.amended_images = <<"amended">>
             /\ ~intervalActive'
             /\ ~isPollingAmendedImages'
        /\ PollStep => error' = error
        /\ detailPolls'.sent > detailPolls.sent =>
             /\ intervalActive /\ isPollingAmendedImages
             /\ alert # Null /\ ~HasAmendedImages(alert)
             /\ elapsed' <= MAX_POLL_DURATION
             /\ ~pollingStopped]_vars

(***************************************************************************)
(* Properties of the classifier client.                                    *)
(***************************************************************************)
\* the text has a "[" with a "]" somewhere after it
HasBrackets(text) ==
  \E i, j \in 1..Len(text) : i < j /\ text[i] = "[" /\ text[j] = "]"

\* C16 (parse-failure fallback): given model output without a bracketed
\* array, analyzeVideo and analyzeFrame return the empty sequence and throw
\* nothing.
NoArrayFallback ==
  (classifyCall.done /\ ~classifyCall.fails /\ ~HasBrackets(classifyCall.text)) =>
    /\ classifyCall.result = <<>>
    /\ ~classifyCall.threw

\* analyzeVideo was given prose with a "]" before a "[" and returned []
NoArrayFallbackWitness ==
  /\ classifyCall.done
  /\ classifyCall.fn = "analyzeVideo"
  /\ ~classifyCall.fails
  /\ classifyCall.text = <<"p", "]", "[", "v">>
  /\ classifyCall.result = <<>>
  /\ ~classifyCall.threw

\* the text holds a JSON array: some part of it is the text of one
HoldsJsonArray(text) ==
  \E i, j \in 1..Len(text) : i < j /\ IsJsonArray(SubSeq(text, i, j))

\* C17 (ParseFailure is never raised): given model output that is not
\* recognizable JSON, also output with a bracketed part that is no JSON
\* array, analyzeVideo and analyzeFrame return the empty sequence and throw
\* nothing.
ParseFailureNotRaised ==
  (classifyCall.done /\ ~classifyCall.fails
     /\ ~HoldsJsonArray(classifyCall.text)) =>
    /\ classifyCall.result = <<>>
    /\ ~classifyCall.threw

(***************************************************************************)
(* Properties of the analysis submission proxy.                            *)
(***************************************************************************)
\* the request carries neither video_url nor video_base64
FieldMissing == ~proxyCall.video_url /\ ~proxyCall.video_base64

BackendAborted == proxyCall.contacted /\ proxyCall.backend.kind = "aborted"

BackendUnreachable == proxyCall.contacted /\ proxyCall.backend.kind = "unreachable"

BackendNotOk ==
  /\ proxyCall.contacted
  /\ proxyCall.backend.kind = "answer"
  /\ ~ResponseOk(proxyCall.backend.status)

Resolvable(incoming) ==
  /\ incoming.policy_id # <<>>
  /\ FindPolicy(policyDoc, incoming.policy_id[1]) # Undefined

\* C21 (no dangling policy reference): an entry whose policy cannot be
\* resolved is mapped to no alert, and every alert placed in the collection
\* refers to a policy of the policy document.
NoDanglingPolicy ==
  /\ (mapCall.done /\ ~Resolvable(mapCall.incoming)) => mapCall.result = NoAlert
  /\ mapCall.placed => FindPolicy(policyDoc, mapCall.result.policy_id) # Undefined

\* C22 (severity mapping consistency): the alert card, the alert detail page
\* and the dashboard counters give a displayed alert the same severity class.
SeverityConsistent ==
  mapCall.shown # NoShow =>
    /\ mapCall.shown.card = mapCall.shown.detail
    /\ mapCall.shown.card = mapCall.shown.dashboard

(***************************************************************************)
(* Properties of LiveCamera and of the live violations list.               *)
(***************************************************************************)
\* C28 (timers after deactivation): while LiveCamera is not active no
\* frame-analysis timer is running, and no analysis request is issued.
LiveTimersStopped ==
  /\ [](~isActive => liveTimers = {})
  /\ [][liveRequests' > liveRequests => isActive]_vars

\* C29 (no duplicate live violations): no two entries of the violations list
\* have the same timestamp and the same policy_name.
NoDuplicateViolations ==
  \A i, j \in 1..Len(violations) :
    (/\ violations[i].timestamp = violations[j].timestamp
     /\ violations[i].policy_name = violations[j].policy_name) => i = j

====
